---- MODULE Spec2Model ----
(***************************************************************************)
(* A model of the Subsonic client binding of sublime-music (pkg/subsonic): *)
(* the struct-to-query-parameter marshaler MarshalValues and the custom    *)
(* JSON scalar decoders (SubsonicID, SubsonicDuration, IgnoredArticles),   *)
(* the session of client.go: get, getJSON and the matching of errors, and  *)
(* the endpoint methods that call them.                                    *)
(*                                                                         *)
(* Texts (Go strings and byte slices) are sequences of one-character       *)
(* strings, so that quoting, escaping and splitting are computed.          *)
(***************************************************************************)
EXTENDS Integers, Sequences, FiniteSets, TLC

VARIABLES
    req,        \* the request struct handed to MarshalValues
    values,     \* what MarshalValues returned for req (or not called yet)
    jsonIn,     \* the JSON value handed to a custom decoder
    id,         \* the SubsonicID variable being decoded into
    idBefore,   \* the value id held when UnmarshalJSON was called
    idRes,      \* the outcome of SubsonicID.UnmarshalJSON
    dur,        \* the SubsonicDuration variable being decoded into
    durRes,     \* the outcome of SubsonicDuration.UnmarshalJSON
    durOut,     \* the bytes SubsonicDuration.MarshalJSON returned
    artIn,      \* what the caller starts from: a wire text or a list of articles
    artWire,    \* the JSON text of the ignored articles
    articles,   \* the IgnoredArticles variable
    artErr,     \* the outcome of IgnoredArticles.UnmarshalJSON
    artPc,      \* how far the caller of the two methods has got
    client,     \* the Client
    sent,       \* the query of the request the last call issued
    ret,        \* what the last call of get or getJSON returned
    seen,       \* what the session was before that call and what the server answered
    target,     \* the error the returned error is matched against
    matched,    \* the outcome of that match
    call        \* the last call of an endpoint method and what came of it

marshalVars == <<req, values>>
decodeVars == <<jsonIn, id, idBefore, idRes, dur, durRes, durOut>>
articleVars == <<artIn, artWire, articles, artErr, artPc>>
clientVars == <<client, sent, ret, seen, target, matched>>
endpointVars == <<call>>

vars == <<marshalVars, decodeVars, articleVars, clientVars, endpointVars>>

-----------------------------------------------------------------------------
(* Bounds of the model.                                                    *)

MaxStrLen == 2      \* longest string value of a request field
MaxInt == 10        \* largest int value of a request field
MaxSlice == 2       \* longest slice value of a request field
MaxNumber == 130    \* largest of the consecutive JSON integers decoded
MaxWireLen == 4     \* longest wire string of ignored articles
MaxWords == 2       \* longest list of ignored articles

-----------------------------------------------------------------------------
(* Characters and texts.                                                   *)

Q == "\""
BS == "\\"
NL == "\n"

Alphabet == {"a", Q, BS, NL}

DigitChars == <<"0", "1", "2", "3", "4", "5", "6", "7", "8", "9">>

Digit(d) == DigitChars[d + 1]

RECURSIVE NatToText(_)
NatToText(n) ==
    IF n < 10 THEN <<Digit(n)>>
    ELSE NatToText(n \div 10) \o <<Digit(n % 10)>>

\* The decimal text of an integer, as json.Marshal and fmt's %d write it.
IntToText(n) == IF n < 0 THEN <<"-">> \o NatToText(-n) ELSE NatToText(n)

RECURSIVE Concat(_)
Concat(ss) == IF ss = <<>> THEN <<>> ELSE Head(ss) \o Concat(Tail(ss))

\* strings.Split on one separator character (or tag token).
RECURSIVE Split(_, _)
Split(s, sep) ==
    IF \A i \in 1..Len(s) : s[i] # sep THEN <<s>>
    ELSE LET i == CHOOSE k \in 1..Len(s) :
                      s[k] = sep /\ \A j \in 1..(k - 1) : s[j] # sep
         IN  <<SubSeq(s, 1, i - 1)>> \o Split(SubSeq(s, i + 1, Len(s)), sep)

NullText == <<"n", "u", "l", "l">>
TrueText == <<"t", "r", "u", "e">>
FalseText == <<"f", "a", "l", "s", "e">>

-----------------------------------------------------------------------------
(* encoding/json's encoding of the Go values a request field can hold.     *)

\* One character of a JSON string literal (encoding/json, HTML escaping on).
EscapeChar(c) ==
    CASE c = Q -> <<BS, Q>>
      [] c = BS -> <<BS, BS>>
      [] c = NL -> <<BS, "n">>
      [] OTHER -> <<c>>

\* json.Marshal of a Go string: quoted and escaped.
JSONString(s) == <<Q>> \o Concat([i \in 1..Len(s) |-> EscapeChar(s[i])]) \o <<Q>>

\* A Go value: one record shape for every kind.
\*   k    the kind: "string", "int", "bool", "ptr", "slice", "time",
\*        "unixmilli", "complex", "chan"
\*   pk   the kind a pointer points to
\*   nil  a nil pointer or a nil slice
\*   s n b  the string, integer and boolean payload
\*   e    the elements of a slice of SubsonicID
\*   t    a UTC time <<year, month, day, hour, minute, second>>
ZeroTime == <<1, 1, 1, 0, 0, 0>>
BaseV == [k |-> "", pk |-> "", nil |-> FALSE, s |-> <<>>, n |-> 0, b |-> FALSE,
          e |-> <<>>, t |-> ZeroTime]
StrV(s) == [BaseV EXCEPT !.k = "string", !.s = s]
IntV(n) == [BaseV EXCEPT !.k = "int", !.n = n]
BoolV(b) == [BaseV EXCEPT !.k = "bool", !.b = b]
NilPtrV(pk) == [BaseV EXCEPT !.k = "ptr", !.pk = pk, !.nil = TRUE]
PtrV(v) == [v EXCEPT !.k = "ptr", !.pk = v.k]
Deref(p) == [p EXCEPT !.k = p.pk, !.pk = ""]
SliceV(e) == [BaseV EXCEPT !.k = "slice", !.e = e]
NilSliceV == [BaseV EXCEPT !.k = "slice", !.nil = TRUE]
TimeV(t) == [BaseV EXCEPT !.k = "time", !.t = t]
UnixMilliV(zero, ms) == [BaseV EXCEPT !.k = "unixmilli", !.b = zero, !.n = ms]
ComplexV(s) == [BaseV EXCEPT !.k = "complex", !.s = s]
\* A finite float64 of the given decimal text, and math.NaN().
FloatV(text) == [BaseV EXCEPT !.k = "float64", !.s = text]
NaNV == [BaseV EXCEPT !.k = "float64", !.b = TRUE]
ChanV == [BaseV EXCEPT !.k = "chan"]

Pad2(n) == IF n < 10 THEN <<"0">> \o NatToText(n) ELSE NatToText(n)
Pad4(n) ==
    IF n < 10 THEN <<"0", "0", "0">> \o NatToText(n)
    ELSE IF n < 100 THEN <<"0", "0">> \o NatToText(n)
    ELSE IF n < 1000 THEN <<"0">> \o NatToText(n)
    ELSE NatToText(n)

\* time.Time.Format(time.RFC3339) of a UTC time.
FormatRFC3339(t) ==
    Pad4(t[1]) \o <<"-">> \o Pad2(t[2]) \o <<"-">> \o Pad2(t[3]) \o <<"T">>
    \o Pad2(t[4]) \o <<":">> \o Pad2(t[5]) \o <<":">> \o Pad2(t[6]) \o <<"Z">>

\* The type switch of MarshalValues: a time.Time, or a non-nil *time.Time,
\* is replaced by its RFC 3339 string.
FormatTimes(val) ==
    IF val.k = "time" THEN StrV(FormatRFC3339(val.t))
    ELSE IF val.k = "ptr" /\ val.pk = "time" /\ ~val.nil
         THEN StrV(FormatRFC3339(val.t))
    ELSE val

ComplexPrefix == <<"a", "a", "a", "a", "a", " ">>
ComplexSuffix == <<" ", "b", "b", "b", "b", "b">>

\* json.Marshal of a slice of strings.
RECURSIVE JSONElems(_)
JSONElems(e) ==
    IF e = <<>> THEN <<>>
    ELSE IF Len(e) = 1 THEN JSONString(e[1])
    ELSE JSONString(e[1]) \o <<",">> \o JSONElems(Tail(e))

\* json.Marshal(val): [err, text].
RECURSIVE JSONMarshal(_)
JSONMarshal(val) ==
    CASE val.k = "string" -> [err |-> FALSE, text |-> JSONString(val.s)]
      [] val.k = "int" -> [err |-> FALSE, text |-> IntToText(val.n)]
      [] val.k = "bool" ->
            [err |-> FALSE, text |-> IF val.b THEN TrueText ELSE FalseText]
      [] val.k = "ptr" ->
            IF val.nil THEN [err |-> FALSE, text |-> NullText]
            ELSE JSONMarshal(Deref(val))
      [] val.k = "slice" ->
            IF val.nil THEN [err |-> FALSE, text |-> NullText]
            ELSE [err |-> FALSE, text |-> <<"[">> \o JSONElems(val.e) \o <<"]">>]
      [] val.k = "time" ->
            \* time.Time.MarshalJSON: the quoted RFC 3339 text
            [err |-> FALSE, text |-> <<Q>> \o FormatRFC3339(val.t) \o <<Q>>]
      [] val.k = "unixmilli" ->
            \* jsontime.UnixMilli.MarshalJSON: 0 for the zero time, else the
            \* milliseconds since the epoch
            [err |-> FALSE, text |-> IF val.b THEN <<"0">> ELSE IntToText(val.n)]
      [] val.k = "float64" ->
            \* an UnsupportedValueError for NaN and the infinities
            IF val.b THEN [err |-> TRUE, text |-> <<>>]
            ELSE [err |-> FALSE, text |-> val.s]
      [] val.k = "complex" ->
            \* Complex.MarshalJSON of the test file
            [err |-> FALSE,
             text |-> JSONString(ComplexPrefix \o val.s \o ComplexSuffix)]
      [] OTHER -> [err |-> TRUE, text |-> <<>>]

-----------------------------------------------------------------------------
(* MarshalValues.                                                          *)

\* A struct field: its Go name, whether it carries a url tag, the tag (a
\* sequence of tokens, "," being the separator) and its value.
Field(name, hasTag, tag, val) ==
    [Name |-> name, hasTag |-> hasTag, tag |-> tag, val |-> val]
Tagged(name, tag, val) == Field(name, TRUE, tag, val)
Untagged(name, val) == Field(name, FALSE, <<>>, val)

ErrNone == "nil"
ErrInvalidTag == "invalid 'url' tag"
ErrJSON == "json: unsupported type"

EmptyValues == [k \in {} |-> <<>>]
Put(out, name, vs) ==
    [k \in (DOMAIN out) \cup {name} |-> IF k = name THEN vs ELSE out[k]]

Result(isNil, out, err) == [called |-> TRUE, isNil |-> isNil, out |-> out, err |-> err]
NotCalled == [called |-> FALSE, isNil |-> TRUE, out |-> EmptyValues, err |-> ErrNone]

FieldNameIgnoringTag(field) == <<field.Name>>

\* The wire name of a field: the first part of the tag, else the Go name.
FieldName(field) ==
    IF field.hasTag THEN Split(field.tag, ",")[1] ELSE <<field.Name>>

\* Whether one of the tag's modifiers is omitempty.
OmitEmpty(field) ==
    /\ field.hasTag
    /\ LET nameParts == Split(field.tag, ",")
       IN  \E i \in 2..Len(nameParts) : nameParts[i] = <<"omitempty">>

\* "It was a string, remove the quotes."
StripQuotes(v) ==
    IF v[1] = Q /\ v[Len(v)] = Q THEN SubSeq(v, 2, Len(v) - 1) ELSE v

SkippedEvenIfNotMarked(omitEmpty, v) == v = NullText \/ Len(v) = 0

\* Whether the field is skipped after conversion.
Skipped(omitEmpty, v) == omitEmpty /\ (v = NullText \/ Len(v) = 0)

InvalidTagPartial(out) == Result(FALSE, out, ErrInvalidTag)

\* The return on an empty wire name: no parameter set, the invalid-tag error.
InvalidTag(out) == Result(TRUE, EmptyValues, ErrInvalidTag)

\* The loop of MarshalValues from field i on, out being the set built so far.
RECURSIVE MarshalFrom(_, _, _)
MarshalFrom(in, i, out) ==
    IF i > Len(in) THEN Result(FALSE, out, ErrNone)
    ELSE
        LET field == in[i]
            name == FieldName(field)
            omitEmpty == OmitEmpty(field)
            m == JSONMarshal(FormatTimes(field.val))
        IN  IF name = <<>> THEN InvalidTag(out)
            ELSE IF m.err THEN Result(TRUE, EmptyValues, ErrJSON)
            ELSE LET v == StripQuotes(m.text)
                 IN  IF Skipped(omitEmpty, v) THEN MarshalFrom(in, i + 1, out)
                     ELSE MarshalFrom(in, i + 1, Put(out, name, <<v>>))

MarshalValues(in) == MarshalFrom(in, 1, EmptyValues)

-----------------------------------------------------------------------------
(* The request structs handed to MarshalValues.                            *)

StringsUpTo(n) == UNION {[1..m -> Alphabet] : m \in 0..n}
Strings == StringsUpTo(MaxStrLen)
ShortStrings == {<<>>, <<"a">>}

Ints == (-1)..MaxInt
FewInts == {-1, 0, MaxInt}

SubsonicIDs == {<<"s", "1">>, <<"s", "2">>}
Slices == {NilSliceV} \cup {SliceV(e) : e \in UNION {[1..m -> SubsonicIDs] : m \in 0..MaxSlice}}

SomeTime == <<2024, 1, 2, 3, 4, 5>>
UnixMillis == {UnixMilliV(TRUE, 0), UnixMilliV(FALSE, 5000)}

IntPtrs == {NilPtrV("int")} \cup {PtrV(IntV(n)) : n \in {0, 1}}

\* type Foo struct { A string `url:"a"`; B int; C Complex `url:"c,omitempty"`;
\*                   D string `url:"d,omitempty"`; E *int `url:"e,omitempty"` }
Foo(a, b, c, d, e) ==
    << Tagged("A", <<"a">>, StrV(a)),
       Untagged("B", IntV(b)),
       Tagged("C", <<"c", ",", "omitempty">>, ComplexV(c)),
       Tagged("D", <<"d", ",", "omitempty">>, StrV(d)),
       Tagged("E", <<"e", ",", "omitempty">>, e) >>

ReqCreateShare(ID, Description, Expires) ==
    << Tagged("ID", <<"id">>, ID),
       Tagged("Description", <<"description", ",", "omitempty">>, StrV(Description)),
       Tagged("Expires", <<"expires", ",", "omitempty">>, Expires) >>

ReqStarUnstar(ID, AlbumID, ArtistID) ==
    << Tagged("ID", <<"id", ",", "omitempty">>, ID),
       Tagged("AlbumID", <<"albumId", ",", "omitempty">>, AlbumID),
       Tagged("ArtistID", <<"artistId", ",", "omitempty">>, ArtistID) >>

ReqStream(ID, MaxBitRate, Format, TimeOffset, Size, EstimateContentLength, Converted) ==
    << Tagged("ID", <<"id">>, StrV(ID)),
       Tagged("MaxBitRate", <<"maxBitRate", ",", "omitempty">>, MaxBitRate),
       Tagged("Format", <<"format", ",", "omitempty">>, Format),
       Tagged("TimeOffset", <<"timeOffset", ",", "omitempty">>, IntV(TimeOffset)),
       Tagged("Size", <<"size", ",", "omitempty">>, StrV(Size)),
       Tagged("EstimateContentLength", <<"estimateContentLength", ",", "omitempty">>,
              BoolV(EstimateContentLength)),
       Tagged("Converted", <<"converted", ",", "omitempty">>, BoolV(Converted)) >>

ReqJukeboxControl(Action, Index, Offset, ID, Gain) ==
    << Tagged("Action", <<"action">>, StrV(Action)),
       Tagged("Index", <<"index", ",", "omitempty">>, Index),
       Tagged("Offset", <<"offset", ",", "omitempty">>, Offset),
       Tagged("ID", <<"id", ",", "omitempty">>, ID),
       Tagged("Gain", <<"gain", ",", "omitempty">>, Gain) >>

\* A struct of one or two fields of any tag and any kind of value.
GenTags ==
    { <<"x">>, <<"x", ",", "omitempty">>, <<>>, <<",", "omitempty">>,
      <<"x", ",", "foo", ",", "omitempty">>, <<"x", ",", "foo">> }

GenValues ==
    {StrV(s) : s \in Strings} \cup {IntV(n) : n \in Ints}
    \cup {BoolV(b) : b \in BOOLEAN}
    \cup IntPtrs
    \cup {NilPtrV("string"), PtrV(StrV(<<>>)), PtrV(StrV(<<"a">>)), PtrV(BoolV(FALSE)),
          NilPtrV("time"), PtrV(TimeV(ZeroTime)), PtrV(TimeV(SomeTime))}
    \cup Slices
    \cup {TimeV(ZeroTime), TimeV(SomeTime)}
    \cup UnixMillis
    \cup {ComplexV(s) : s \in ShortStrings}
    \cup {ChanV}

GenFields ==
    {Tagged("X", tag, val) : tag \in GenTags, val \in GenValues}
    \cup {Untagged("X", val) : val \in GenValues}

FirstFields ==
    { Tagged("Y", <<"y">>, StrV(<<"a">>)),
      Tagged("Y", <<"x">>, IntV(1)),
      Tagged("Y", <<>>, StrV(<<"a">>)),
      Untagged("Y", ChanV) }

Requests ==
    {[type |-> "Foo", fields |-> Foo(a, b, c, d, e)] :
        a \in Strings, b \in FewInts, c \in ShortStrings, d \in ShortStrings,
        e \in IntPtrs}
    \cup {[type |-> "ReqCreateShare", fields |-> ReqCreateShare(i, d, e)] :
        i \in Slices, d \in Strings, e \in UnixMillis}
    \cup {[type |-> "ReqStarUnstar", fields |-> ReqStarUnstar(i, al, ar)] :
        i \in Slices, al \in Slices, ar \in {NilSliceV, SliceV(<<<<"s", "1">>>>)}}
    \cup {[type |-> "ReqStream", fields |-> ReqStream(<<"s", "1">>, m, f, t, s, e, c)] :
        m \in IntPtrs, f \in {NilPtrV("string"), PtrV(StrV(<<"a">>))},
        t \in {0, MaxInt}, s \in ShortStrings, e \in BOOLEAN, c \in BOOLEAN}
    \cup {[type |-> "Gen", fields |-> <<f>>] : f \in GenFields}
    \cup {[type |-> "Gen", fields |-> <<g, f>>] : g \in FirstFields, f \in GenFields}

-----------------------------------------------------------------------------
(* Marshaling a request: the caller builds a request struct and calls      *)
(* MarshalValues on it once.                                               *)

CallMarshalValues ==
    /\ ~values.called
    /\ values' = MarshalValues(req.fields)
    /\ UNCHANGED req
    /\ UNCHANGED <<decodeVars, articleVars, clientVars, endpointVars>>

-----------------------------------------------------------------------------
(* Natural numbers of any size, as sequences of decimal digits (most       *)
(* significant first, no leading zero) and as sequences of bits.           *)

\* s without its leading zeros.
StripBits(s) ==
    IF \A i \in 1..Len(s) : s[i] = 0 THEN <<>>
    ELSE SubSeq(s, CHOOSE i \in 1..Len(s) : s[i] # 0 /\ \A j \in 1..(i - 1) : s[j] = 0,
                Len(s))

\* The digits of a number without leading zeros; zero is the digit 0.
Canon(ds) == IF StripBits(ds) = <<>> THEN <<0>> ELSE StripBits(ds)

RECURSIVE NatDigits(_)
NatDigits(n) == IF n < 10 THEN <<n>> ELSE NatDigits(n \div 10) \o <<n % 10>>

Front(s) == SubSeq(s, 1, Len(s) - 1)
Last(s) == s[Len(s)]
Zeros(n) == [i \in 1..n |-> 0]

RECURSIVE DivRaw(_, _, _)
DivRaw(ds, d, carry) ==
    IF ds = <<>> THEN [q |-> <<>>, r |-> carry]
    ELSE LET cur == carry * 10 + Head(ds)
             rest == DivRaw(Tail(ds), d, cur % d)
         IN  [q |-> <<cur \div d>> \o rest.q, r |-> rest.r]

\* ds divided by the small number d: quotient digits and remainder.
DivDigits(ds, d) == LET x == DivRaw(ds, d, 0) IN [q |-> Canon(x.q), r |-> x.r]

RECURSIVE MulRaw(_, _, _)
MulRaw(ds, m, a) ==
    IF ds = <<>> THEN [c |-> a, ds |-> <<>>]
    ELSE LET cur == Last(ds) * m + a
             rest == MulRaw(Front(ds), m, cur \div 10)
         IN  [c |-> rest.c, ds |-> rest.ds \o <<cur % 10>>]

\* ds * m + a for small m and a.
TimesPlus(ds, m, a) ==
    LET x == MulRaw(ds, m, a) IN Canon(NatDigits(x.c) \o x.ds)

\* The eight bits of a number below 256.
ByteBits(r) ==
    << (r \div 128) % 2, (r \div 64) % 2, (r \div 32) % 2, (r \div 16) % 2,
       (r \div 8) % 2, (r \div 4) % 2, (r \div 2) % 2, r % 2 >>

ByteOf(bs) ==
    bs[1] * 128 + bs[2] * 64 + bs[3] * 32 + bs[4] * 16 + bs[5] * 8 + bs[6] * 4
    + bs[7] * 2 + bs[8]

\* The bits of the number with digits ds, eight at a time, put before acc.
RECURSIVE DecToBitsBefore(_, _)
DecToBitsBefore(ds, acc) ==
    IF Canon(ds) = <<0>> THEN acc
    ELSE LET x == DivDigits(ds, 256)
             bits == ByteBits(x.r) \o acc
         IN  IF Len(bits) > 0 THEN DecToBitsBefore(x.q, bits) ELSE acc

\* The bits of a number, most significant first; none for zero.
DecToBits(ds) == StripBits(DecToBitsBefore(ds, <<>>))

\* The digits of the number whose leading bits have the digits acc and whose
\* remaining bits are bs (a multiple of eight).
RECURSIVE BitsToDecFrom(_, _)
BitsToDecFrom(bs, acc) ==
    IF bs = <<>> THEN acc
    ELSE LET next == TimesPlus(acc, 256, ByteOf(SubSeq(bs, 1, 8)))
         IN  IF Len(next) > 0 THEN BitsToDecFrom(SubSeq(bs, 9, Len(bs)), next) ELSE acc

\* The digits of the number with the bits bs.
BitsToDec(bs) == BitsToDecFrom(Zeros((8 - (Len(bs) % 8)) % 8) \o bs, <<0>>)

\* The bits of the number one larger.
Inc(bs) ==
    IF \A i \in 1..Len(bs) : bs[i] = 1 THEN <<1>> \o Zeros(Len(bs))
    ELSE LET z == CHOOSE i \in 1..Len(bs) :
                      bs[i] = 0 /\ \A j \in (i + 1)..Len(bs) : bs[j] = 1
         IN  [j \in 1..Len(bs) |-> IF j < z THEN bs[j] ELSE IF j = z THEN 1 ELSE 0]

DigitsText(ds) == [i \in 1..Len(ds) |-> Digit(ds[i])]

IsDigit(c) == \E d \in 0..9 : DigitChars[d + 1] = c
DigitOf(c) == CHOOSE d \in 0..9 : DigitChars[d + 1] = c
TextDigits(cs) == [i \in 1..Len(cs) |-> DigitOf(cs[i])]

-----------------------------------------------------------------------------
(* json.Unmarshal into an `any`: the dynamic type found.                   *)

\* The inverse of the escaping of a JSON string literal.
RECURSIVE Unescape(_)
Unescape(s) ==
    IF s = <<>> THEN <<>>
    ELSE IF s[1] = BS /\ Len(s) >= 2
         THEN <<(IF s[2] = "n" THEN NL ELSE s[2])>> \o Unescape(SubSeq(s, 3, Len(s)))
    ELSE <<s[1]>> \o Unescape(Tail(s))

\* A decoded JSON value: t is "string", "number", "bool", "null", "array",
\* "object" or "invalid"; s the string; neg, int, frac the sign, the integer
\* digits and the fraction digits of a number.
JSONValue(t, s, neg, int, frac) ==
    [t |-> t, s |-> s, neg |-> neg, int |-> int, frac |-> frac]
JSONOther(t) == JSONValue(t, <<>>, FALSE, <<0>>, <<>>)

\* A JSON number without exponent: -?digits(.digits)?
ParseNumber(b) ==
    LET neg == b[1] = "-"
        body == IF neg THEN Tail(b) ELSE b
        parts == Split(body, ".")
        digitsOnly(p) == p # <<>> /\ \A i \in 1..Len(p) : IsDigit(p[i])
    IN  IF /\ Len(parts) <= 2
           /\ \A i \in 1..Len(parts) : digitsOnly(parts[i])
           /\ (Len(parts[1]) > 1 => parts[1][1] # "0")
        THEN JSONValue("number", <<>>, neg, TextDigits(parts[1]),
                       IF Len(parts) = 2 THEN TextDigits(parts[2]) ELSE <<>>)
        ELSE JSONOther("invalid")

ParseJSON(b) ==
    IF b = <<>> THEN JSONOther("invalid")
    ELSE IF b[1] = Q THEN
        IF Len(b) >= 2 /\ Last(b) = Q
        THEN JSONValue("string", Unescape(SubSeq(b, 2, Len(b) - 1)), FALSE, <<0>>, <<>>)
        ELSE JSONOther("invalid")
    ELSE IF b[1] = "-" \/ IsDigit(b[1]) THEN ParseNumber(b)
    ELSE IF b = TrueText \/ b = FalseText THEN JSONOther("bool")
    ELSE IF b = NullText THEN JSONOther("null")
    ELSE IF b[1] = "[" /\ Last(b) = "]" THEN JSONOther("array")
    ELSE IF b[1] = "{" /\ Last(b) = "}" THEN JSONOther("object")
    ELSE JSONOther("invalid")

\* The significand of a float64.
MantissaBits == 53

\* The first n bytes of the binary expansion of the fraction 0.fs, and
\* whether non-zero bits follow them.
RECURSIVE FracBytes(_, _)
FracBytes(fs, n) ==
    IF n = 0 \/ \A i \in 1..Len(fs) : fs[i] = 0
    THEN [bits |-> Zeros(8 * n), more |-> \E i \in 1..Len(fs) : fs[i] # 0]
    ELSE LET x == MulRaw(fs, 256, 0)
             rest == FracBytes(x.ds, n - 1)
         IN  [bits |-> ByteBits(x.c) \o rest.bits, more |-> rest.more]

\* The first k binary digits of the fraction 0.fs, and whether more follow.
FracBits(fs, k) ==
    LET x == FracBytes(fs, (k + 7) \div 8)
    IN  [bits |-> SubSeq(x.bits, 1, k),
         more |-> x.more \/ \E j \in (k + 1)..Len(x.bits) : x.bits[j] = 1]

\* int(val) for the float64 val a JSON number decodes to: the number is
\* rounded to the nearest float64 (ties to even) and then truncated. The
\* result is the bits of the magnitude.
TruncFloat64(num) ==
    LET ib == DecToBits(num.int)
        L == Len(ib)
        K == IF L >= MantissaBits THEN 0 ELSE MantissaBits - L
        fb == FracBits(num.frac, K + 1)
        all == ib \o fb.bits
        kept == SubSeq(all, 1, MantissaBits)
        guard == all[MantissaBits + 1]
        sticky == fb.more \/ \E j \in (MantissaBits + 2)..Len(all) : all[j] = 1
        up == guard = 1 /\ (sticky \/ kept[MantissaBits] = 1)
        mant == IF up THEN Inc(kept) ELSE kept
        whole == IF L >= MantissaBits THEN mant \o Zeros(L - MantissaBits)
                 ELSE SubSeq(mant, 1, Len(mant) - K)
    IN  StripBits(whole)

\* fmt.Sprintf("%d", n) of the integer with sign neg and magnitude bits.
SprintfD(neg, bits) ==
    (IF neg /\ bits # <<>> THEN <<"-">> ELSE <<>>) \o DigitsText(BitsToDec(bits))

-----------------------------------------------------------------------------
(* SubsonicID.                                                             *)

ErrSyntax == "json: syntax error"
ErrType == "cannot convert type"

\* float64 case of the type switch: the number printed as an integer.
IDOfNumber(raw) == SprintfD(raw.neg, TruncFloat64(raw))

\* SubsonicID.UnmarshalJSON(b) on an identifier holding old.
UnmarshalID(b, old) ==
    LET rawID == ParseJSON(b)
    IN  CASE rawID.t = "invalid" -> [id |-> old, err |-> ErrSyntax]
          [] rawID.t = "string" -> [id |-> rawID.s, err |-> ErrNone]
          [] rawID.t = "number" -> [id |-> IDOfNumber(rawID), err |-> ErrNone]
          [] OTHER -> [id |-> old, err |-> ErrType]

-----------------------------------------------------------------------------
(* SubsonicDuration: an int64 count of nanoseconds, held as sign and       *)
(* decimal digits of the magnitude.                                        *)

Int64Bits == 64
SecondDigits == 9      \* time.Second is 10^9 nanoseconds

Duration(neg, ns) == [neg |-> neg /\ ns # <<0>>, ns |-> ns]
ZeroDuration == Duration(FALSE, <<0>>)

Low64(bs) ==
    IF Len(bs) >= Int64Bits THEN SubSeq(bs, Len(bs) - Int64Bits + 1, Len(bs))
    ELSE Zeros(Int64Bits - Len(bs)) \o bs

Invert(bs) == [i \in 1..Len(bs) |-> 1 - bs[i]]

\* Two's complement negation in 64 bits.
Neg64(bs) == Low64(Inc(Invert(bs)))

\* The int64 with the given sign and magnitude, wrapped to 64 bits.
WrapInt64(neg, magnitude) ==
    LET low == Low64(DecToBits(magnitude))
        pattern == IF neg THEN Neg64(low) ELSE low
    IN  IF pattern[1] = 1 THEN Duration(TRUE, BitsToDec(StripBits(Neg64(pattern))))
        ELSE Duration(FALSE, BitsToDec(StripBits(pattern)))

\* time.Duration(val) * time.Second
DurationOfNumber(raw) ==
    WrapInt64(raw.neg, Canon(BitsToDec(TruncFloat64(raw)) \o Zeros(SecondDigits)))

\* SubsonicDuration.UnmarshalJSON(b) on a duration holding old.
UnmarshalDuration(b, old) ==
    LET rawDuration == ParseJSON(b)
    IN  CASE rawDuration.t = "invalid" -> [d |-> old, err |-> ErrSyntax]
          [] rawDuration.t = "number" ->
                [d |-> DurationOfNumber(rawDuration), err |-> ErrNone]
          [] OTHER -> [d |-> old, err |-> ErrType]

\* ds without its trailing zeros.
TrimZeros(ds) ==
    IF \A i \in 1..Len(ds) : ds[i] = 0 THEN <<>>
    ELSE SubSeq(ds, 1, CHOOSE i \in 1..Len(ds) :
                           ds[i] # 0 /\ \A j \in (i + 1)..Len(ds) : ds[j] = 0)

\* The fraction of a duration text: nothing when zero, else "." and the
\* digits without trailing zeros.
FmtFrac(ds) ==
    IF TrimZeros(ds) = <<>> THEN <<>> ELSE <<".">> \o DigitsText(TrimZeros(ds))

Micro == "U+00B5"      \* the micro sign, one character

\* The text of prec fraction digits split off the digits u.
WithFrac(u, prec) ==
    DigitsText(Canon(SubSeq(u, 1, Len(u) - prec)))
    \o FmtFrac(SubSeq(u, Len(u) - prec + 1, Len(u)))

\* time.Duration.String()
DurationString(d) ==
    LET u == d.ns
        sign == IF d.neg THEN <<"-">> ELSE <<>>
    IN  IF u = <<0>> THEN <<"0", "s">>
        ELSE IF Len(u) <= 3 THEN sign \o DigitsText(u) \o <<"n", "s">>
        ELSE IF Len(u) <= 6 THEN sign \o WithFrac(u, 3) \o <<Micro, "s">>
        ELSE IF Len(u) <= 9 THEN sign \o WithFrac(u, 6) \o <<"m", "s">>
        ELSE
            LET frac == FmtFrac(SubSeq(u, Len(u) - SecondDigits + 1, Len(u)))
                secs == DivDigits(SubSeq(u, 1, Len(u) - SecondDigits), 60)
                mins == DivDigits(secs.q, 60)
                s == NatToText(secs.r) \o frac \o <<"s">>
                m == NatToText(mins.r) \o <<"m">>
                h == DigitsText(mins.q) \o <<"h">>
            IN  IF secs.q = <<0>> THEN sign \o s
                ELSE IF mins.q = <<0>> THEN sign \o m \o s
                ELSE sign \o h \o m \o s

\* A serializer that wrote the count of whole seconds, the form the decoder
\* reads, in place of the duration's text.
MarshalDurationAsSeconds(d) ==
    (IF d.neg THEN <<"-">> ELSE <<>>)
    \o DigitsText(Canon(SubSeq(d.ns, 1, Len(d.ns) - SecondDigits)))

\* SubsonicDuration.MarshalJSON: the duration's text as a JSON string.
MarshalDuration(d) == JSONString(DurationString(d))

-----------------------------------------------------------------------------
(* The JSON documents handed to the decoders.                              *)

Text9007199254740992 == <<"9","0","0","7","1","9","9","2","5","4","7","4","0","9","9","2">>
Text9223372036 == <<"9","2","2","3","3","7","2","0","3","6">>

BigNumbers ==
    { Text9007199254740992,
      Front(Text9007199254740992) \o <<"3">>,
      Front(Text9007199254740992) \o <<"4">>,
      Front(Text9007199254740992) \o <<"5">>,
      Text9223372036,
      Front(Text9223372036) \o <<"7">>,
      <<"-">> \o Text9223372036,
      <<"-">> \o Front(Text9223372036) \o <<"7">>,
      <<"3", "6", "0", "0">>, <<"3", "6", "6", "1">>, <<"8", "6", "4", "0", "0">> }

Fractions ==
    { <<"0", ".", "5">>, <<"1", ".", "5">>, <<"2", ".", "5">>, <<"-", "1", ".", "5">>,
      <<"1", "2", "5", ".", "0">>, <<"0", ".", "1">> }

JSONInputs ==
    {JSONString(s) : s \in Strings}
    \cup {JSONString(<<"a", "b", "c">>), JSONString(<<"4", "2">>)}
    \cup {IntToText(n) : n \in (-1)..MaxNumber}
    \cup BigNumbers \cup Fractions
    \cup {TrueText, FalseText, NullText, <<"[", "]">>, <<"[", "1", "]">>, <<"{", "}">>}
    \cup {<<"x">>}

-----------------------------------------------------------------------------
(* Decoding: a JSON value is handed to the decoder of an identifier and to *)
(* the decoder of a duration; a decoded duration is serialized again, and  *)
(* what was serialized is handed to the decoder in turn.                   *)

NotDecoded == "none"

DecodeID ==
    /\ idRes = NotDecoded
    /\ LET r == UnmarshalID(jsonIn, id)
       IN  id' = r.id /\ idRes' = r.err
    /\ idBefore' = id
    /\ UNCHANGED <<jsonIn, dur, durRes, durOut>>
    /\ UNCHANGED <<marshalVars, articleVars, clientVars, endpointVars>>

DecodeDuration ==
    /\ durRes = NotDecoded
    /\ LET r == UnmarshalDuration(jsonIn, dur)
       IN  dur' = r.d /\ durRes' = r.err
    /\ UNCHANGED <<jsonIn, id, idBefore, idRes, durOut>>
    /\ UNCHANGED <<marshalVars, articleVars, clientVars, endpointVars>>

EncodeDuration ==
    /\ durRes # NotDecoded
    /\ durOut = <<>>
    /\ durOut' = MarshalDuration(dur)
    /\ UNCHANGED <<jsonIn, id, idBefore, idRes, dur, durRes>>
    /\ UNCHANGED <<marshalVars, articleVars, clientVars, endpointVars>>

\* The serialized duration becomes the document to decode.
FeedBack ==
    /\ durOut # <<>>
    /\ jsonIn # durOut
    /\ jsonIn' = durOut
    /\ durRes' = NotDecoded
    /\ idRes' = NotDecoded
    /\ UNCHANGED <<id, idBefore, dur, durOut>>
    /\ UNCHANGED <<marshalVars, articleVars, clientVars, endpointVars>>

-----------------------------------------------------------------------------
(* IgnoredArticles: a list of words, written on the wire as one JSON       *)
(* string of the words separated by single spaces.                         *)

\* strings.Join(elems, sep)
RECURSIVE Join(_, _)
Join(elems, sep) ==
    IF elems = <<>> THEN <<>>
    ELSE IF Len(elems) = 1 THEN elems[1]
    ELSE elems[1] \o sep \o Join(Tail(elems), sep)

Space == <<" ">>

\* A []string: nil, or the words it holds.
NilArticles == [nil |-> TRUE, words |-> <<>>]
Articles(words) == [nil |-> FALSE, words |-> words]

ErrUnmarshalType == "json: cannot unmarshal into Go value of type string"

\* A mis-built decoder that splits the empty string too.
UnmarshalArticlesAlwaysSplit(b, old) ==
    LET raw == ParseJSON(b)
    IN  CASE raw.t = "invalid" -> [a |-> old, err |-> ErrSyntax]
          [] raw.t = "string" -> [a |-> Articles(Split(raw.s, " ")), err |-> ErrNone]
          [] raw.t = "null" -> [a |-> Articles(Split(<<>>, " ")), err |-> ErrNone]
          [] OTHER -> [a |-> old, err |-> ErrUnmarshalType]

\* IgnoredArticles.UnmarshalJSON(b) on a variable holding old. json.Unmarshal
\* into a string leaves it "" on null and fails on any other non-string.
UnmarshalArticles(b, old) ==
    LET raw == ParseJSON(b)
        rawArticles == IF raw.t = "string" THEN raw.s ELSE <<>>
    IN  CASE raw.t = "invalid" -> [a |-> old, err |-> ErrSyntax]
          [] raw.t \in {"string", "null"} ->
                [a |-> IF rawArticles = <<>> THEN NilArticles
                       ELSE Articles(Split(rawArticles, " ")),
                 err |-> ErrNone]
          [] OTHER -> [a |-> old, err |-> ErrUnmarshalType]

\* A mis-built encoder that joins the words without the separator.
MarshalArticlesUnseparated(l) == JSONString(Join(l.words, <<>>))

\* IgnoredArticles.MarshalJSON
MarshalArticles(l) == JSONString(Join(l.words, Space))

ArticleChars == {"a", "b", " "}
WireStrings ==
    UNION {[1..m -> ArticleChars] : m \in 0..MaxWireLen}
    \cup {<<"T", "h", "e", " ", "A", " ", "A", "n">>, <<"a", Q, " ", BS>>}

ArticleWords == {<<>>, <<"a">>, <<"b">>, <<"a", "b">>, <<"a", " ", "b">>}
ArticleLists ==
    {NilArticles}
    \cup {Articles(w) : w \in UNION {[1..m -> ArticleWords] : m \in 0..MaxWords}}
    \cup {Articles(<< <<"T", "h", "e">>, <<"A">>, <<"A", "n">> >>)}

\* What the caller starts from: kind is "wire" or "list".
FromWire(b) == [kind |-> "wire", wire |-> b, list |-> NilArticles]
FromList(l) == [kind |-> "list", wire |-> <<>>, list |-> l]

ArticleInputs ==
    {FromWire(JSONString(s)) : s \in WireStrings}
    \cup {FromWire(b) : b \in {NullText, TrueText, <<"4", "2">>, <<"[", "]">>, <<"x">>}}
    \cup {FromList(l) : l \in ArticleLists}

\* The caller decodes a wire text and then encodes the list again, or encodes
\* a list and then decodes the text again.
DecodeArticles ==
    /\ \/ artIn.kind = "wire" /\ artPc = "start"
       \/ artIn.kind = "list" /\ artPc = "encoded"
    /\ LET r == UnmarshalArticles(artWire, articles)
       IN  articles' = r.a /\ artErr' = r.err
    /\ artPc' = IF artIn.kind = "wire" THEN "decoded" ELSE "done"
    /\ UNCHANGED <<artIn, artWire>>
    /\ UNCHANGED <<marshalVars, decodeVars, clientVars, endpointVars>>

EncodeArticles ==
    /\ \/ artIn.kind = "list" /\ artPc = "start"
       \/ artIn.kind = "wire" /\ artPc = "decoded" /\ artErr = ErrNone
    /\ artWire' = MarshalArticles(articles)
    /\ artPc' = IF artIn.kind = "list" THEN "encoded" ELSE "done"
    /\ UNCHANGED <<artIn, articles, artErr>>
    /\ UNCHANGED <<marshalVars, decodeVars, clientVars, endpointVars>>

-----------------------------------------------------------------------------
(* The session: Client, get and getJSON of client.go, and the errors of    *)
(* error.go.                                                               *)

\* An error value: type is "nil" (no error), "SubsonicError", or the type of
\* an error of the transport or of the JSON decoder.
NoError == [type |-> "nil", Code |-> 0, Message |-> ""]
SubsonicError(Code, Message) ==
    [type |-> "SubsonicError", Code |-> Code, Message |-> Message]
OtherError(type) == [type |-> type, Code |-> 0, Message |-> ""]

ErrNoSubsonicResponse == SubsonicError(-1, "server returned invalid JSON")
ErrServerDoesNotSupportOpenSubsonic ==
    SubsonicError(-2, "server does not support OpenSubsonic")
ErrWrongUsernameOrPassword == SubsonicError(40, "wrong username or password")

ErrTransport == OtherError("*url.Error")
ErrDecodeSyntax == OtherError("*json.SyntaxError")
ErrDecodeType == OtherError("*json.UnmarshalTypeError")

\* A matching that compares the messages as well.
IsComparingMessages(e, err) ==
    err.type = "SubsonicError" /\ e.Code = err.Code /\ e.Message = err.Message

\* (*SubsonicError).Is
Is(e, err) == err.type = "SubsonicError" /\ e.Code = err.Code

\* errors.Is(err, tgt) for a non-nil err: identity, or err's own Is method.
\* The errors of the transport and of the decoder wrap no SubsonicError.
ErrorsIs(err, tgt) ==
    IF err.type = "SubsonicError" THEN Is(err, tgt) ELSE err = tgt

\* The Client. NewClient leaves openSubsonic and serverAvailable at their
\* zero value.
DefaultVersion == "1.8.0"
NewClient(username, password, useSaltAuth) ==
    [username |-> username, password |-> password, useSaltAuth |-> useSaltAuth,
     version |-> DefaultVersion, openSubsonic |-> FALSE,
     serverAvailable |-> FALSE]

\* url.Values: nil, or a map from keys to values.
NoKeys == [k \in {} |-> ""]
NilParams == [nil |-> TRUE, kv |-> NoKeys]
Params(kv) == [nil |-> FALSE, kv |-> kv]

\* params.Set(k, v)
Set(kv, k, v) == [x \in (DOMAIN kv) \cup {k} |-> IF x = k THEN v ELSE kv[x]]

\* hex.EncodeToString(md5.Sum(text)): the digest is kept as the text it is of.
MD5Hex(text) == "md5(" \o text \o ")"

ClientName == "Sublime Music"

\* An authentication that sends the plaintext password next to the token.
AuthenticationWithPassword(cl, kv, salt) ==
    LET u == Set(kv, "u", cl.username)
    IN  IF cl.useSaltAuth
        THEN Set(Set(Set(u, "t", MD5Hex(cl.password \o salt)), "s", salt),
                 "p", cl.password)
        ELSE Set(u, "p", cl.password)

\* An authentication whose salt is the same in every request.
AuthenticationWithOneSalt(cl, kv, salt) ==
    LET u == Set(kv, "u", cl.username)
    IN  IF cl.useSaltAuth
        THEN Set(Set(u, "t", MD5Hex(cl.password \o "salt1")), "s", "salt1")
        ELSE Set(u, "p", cl.password)

\* The "Authentication" block of get.
Authentication(cl, kv, salt) ==
    LET u == Set(kv, "u", cl.username)
    IN  IF cl.useSaltAuth
        THEN Set(Set(u, "t", MD5Hex(cl.password \o salt)), "s", salt)
        ELSE Set(u, "p", cl.password)

\* The query get builds from the parameters of the endpoint.
Query(cl, params, salt) ==
    LET given == IF params.nil THEN NoKeys ELSE params.kv
        common == Set(Set(Set(given, "v", cl.version), "c", ClientName), "f", "json")
    IN  Authentication(cl, common, salt)

\* What the server side does with a request. transport is FALSE when
\* c.client.Do fails. Otherwise there is a body:
\*   shape  "malformed", "nonobject" (an array, string, number or boolean),
\*          "null", or "object"
\*   key    the top-level key of an object: "none", "subsonic-response",
\*          "Subsonic-Response" (another letter case) or "other"
\*   val    the value under that key: "null", "string" or "object"
\*   env    the members of that object
\*   data          whether the result key of the endpoint is present
\*   n             the number of elements under that key
\*   openSubsonic  the openSubsonic member
NoEnvelope ==
    [status |-> "", version |-> "", hasError |-> FALSE, Code |-> 0, Message |-> "",
     data |-> FALSE, n |-> 0, openSubsonic |-> FALSE]
Envelope(status, version, hasError, Code, Message, data) ==
    [status |-> status, version |-> version, hasError |-> hasError,
     Code |-> IF hasError THEN Code ELSE 0,
     Message |-> IF hasError THEN Message ELSE "", data |-> data,
     n |-> IF data THEN 1 ELSE 0, openSubsonic |-> FALSE]
\* The envelope of a server that advertises OpenSubsonic.
Advertising(env) == [env EXCEPT !.openSubsonic = TRUE]
\* The envelope with n elements under the result key.
Holding(env, n) == [env EXCEPT !.n = IF env.data THEN n ELSE 0]
Body(shape, key, val, env) ==
    [transport |-> TRUE, shape |-> shape, key |-> key, val |-> val, env |-> env]
TransportFailure ==
    [transport |-> FALSE, shape |-> "", key |-> "", val |-> "", env |-> NoEnvelope]

SubsonicResponseStatusOk == "ok"
SubsonicResponseStatusFailed == "failed"

Versions == {"", "1.16.1"}
ServerErrors == {<<-1, "m">>, <<-2, "m">>, <<40, "">>, <<40, "m">>}
Envelopes ==
    {Envelope(st, v, FALSE, 0, "", d) :
        st \in {SubsonicResponseStatusOk, SubsonicResponseStatusFailed},
        v \in Versions, d \in BOOLEAN}
    \cup {Envelope(st, v, TRUE, e[1], e[2], d) :
        st \in {SubsonicResponseStatusOk, SubsonicResponseStatusFailed},
        v \in Versions, e \in ServerErrors, d \in BOOLEAN}

Outcomes ==
    {TransportFailure}
    \cup {Body(s, "none", "null", NoEnvelope) : s \in {"malformed", "nonobject", "null", "object"}}
    \cup {Body("object", "other", "object", NoEnvelope)}
    \cup {Body("object", "subsonic-response", v, NoEnvelope) : v \in {"null", "string"}}
    \cup {Body("object", "subsonic-response", "object", e) : e \in Envelopes}
    \cup {Body("object", "Subsonic-Response", "object", e) :
            e \in {Envelope(SubsonicResponseStatusOk, "1.16.1", FALSE, 0, "", TRUE),
                   Envelope(SubsonicResponseStatusFailed, "1.16.1", TRUE, 40, "m", FALSE)}}

\* A *Response: nil, or a Response whose SubsonicResponse is nil or env.
NilResponse == [nil |-> TRUE, hasEnvelope |-> FALSE, env |-> NoEnvelope]
Response(hasEnvelope, env) == [nil |-> FALSE, hasEnvelope |-> hasEnvelope, env |-> env]

\* json.NewDecoder(resp.Body).Decode(&response): encoding/json matches the key
\* of a struct field in any letter case, sets a pointer to nil on null, and
\* leaves the value alone when the document is null.
Decode(body) ==
    CASE body.shape = "malformed" -> [err |-> ErrDecodeSyntax, response |-> Response(FALSE, NoEnvelope)]
      [] body.shape = "nonobject" -> [err |-> ErrDecodeType, response |-> Response(FALSE, NoEnvelope)]
      [] body.shape = "null" -> [err |-> NoError, response |-> Response(FALSE, NoEnvelope)]
      [] OTHER ->
            IF body.key \notin {"subsonic-response", "Subsonic-Response"}
                THEN [err |-> NoError, response |-> Response(FALSE, NoEnvelope)]
            ELSE IF body.val = "null"
                THEN [err |-> NoError, response |-> Response(FALSE, NoEnvelope)]
            ELSE IF body.val = "string"
                THEN [err |-> ErrDecodeType, response |-> Response(FALSE, NoEnvelope)]
            ELSE [err |-> NoError, response |-> Response(TRUE, body.env)]

\* What a call returns: the client after it, the query of the request it
\* issued, the body of the HTTP response (get) or the *Response (getJSON),
\* and the error.
Returned4(cl, query, hasBody, response, err) ==
    [client |-> cl, query |-> query, hasBody |-> hasBody, response |-> response,
     err |-> err]

\* Client.get
Get(cl, params, salt, outcome) ==
    LET query == Query(cl, params, salt)
    IN  IF ~outcome.transport
        THEN Returned4([cl EXCEPT !.serverAvailable = FALSE], query, FALSE,
                       NilResponse, ErrTransport)
        ELSE Returned4(cl, query, TRUE, NilResponse, NoError)

\* response.SubsonicResponse == nil
MissingEnvelopeOverlooked(response) == FALSE

MissingEnvelope(response) == ~response.hasEnvelope

\* An error check that gives way to the result fields that carry data.
ServerErrorUnlessData(env) == env.hasError /\ ~env.data

\* response.SubsonicResponse.Error != nil
ServerError(env) == env.hasError

\* Client.getJSON
GetJSON(cl, params, salt, outcome) ==
    LET g == Get(cl, params, salt, outcome)
        d == Decode(outcome)
    IN  IF g.err # NoError THEN Returned4(g.client, g.query, FALSE, NilResponse, g.err)
        ELSE IF d.err # NoError
            THEN Returned4(g.client, g.query, FALSE, NilResponse, d.err)
        ELSE IF MissingEnvelope(d.response)
            THEN Returned4(g.client, g.query, FALSE, NilResponse, ErrNoSubsonicResponse)
        ELSE IF ServerError(d.response.env)
            THEN Returned4(g.client, g.query, FALSE, NilResponse,
                           SubsonicError(d.response.env.Code, d.response.env.Message))
        ELSE Returned4([g.client EXCEPT !.version = d.response.env.version],
                       g.query, FALSE, d.response, NoError)

\* The sessions, the parameters the endpoints hand over, and the salts.
Clients == {NewClient("user", "secret", s) : s \in BOOLEAN}
EndpointParams == {NilParams, Params(Set(NoKeys, "id", "s1"))}

\* random.String(20): any salt may come out; it is used under salted
\* authentication only.
Salts(cl) == IF cl.useSaltAuth THEN {"salt1", "salt2"} ELSE {"salt1"}

\* The errors a caller matches a returned error against.
Targets ==
    {ErrNoSubsonicResponse, ErrServerDoesNotSupportOpenSubsonic,
     ErrWrongUsernameOrPassword, SubsonicError(40, "m"), ErrTransport}

NoQuery == NoKeys
NotReturned ==
    [called |-> FALSE, JSON |-> FALSE, hasBody |-> FALSE, response |-> NilResponse,
     err |-> NoError]
NothingSeen == [params |-> NilParams, before |-> NewClient("", "", FALSE),
                outcome |-> TransportFailure]
NoTarget == NoError
NotMatched == [done |-> FALSE, is |-> FALSE, errorsIs |-> FALSE, converse |-> FALSE]

\* An endpoint calls getJSON (Ping, GetPlaylist, Star, ...).
CallGetJSON ==
    \E params \in EndpointParams, salt \in Salts(client), outcome \in Outcomes :
        LET r == GetJSON(client, params, salt, outcome)
        IN  /\ client' = r.client
            /\ sent' = r.query
            /\ ret' = [called |-> TRUE, JSON |-> TRUE, hasBody |-> r.hasBody,
                       response |-> r.response, err |-> r.err]
            /\ seen' = [params |-> params, before |-> client, outcome |-> outcome]
            /\ target' = NoTarget
            /\ matched' = NotMatched
            /\ UNCHANGED <<marshalVars, decodeVars, articleVars, endpointVars>>

\* An endpoint calls get and reads the body itself (Stream, Download, ...).
CallGet ==
    \E params \in EndpointParams, salt \in Salts(client),
       outcome \in {TransportFailure, Body("malformed", "none", "null", NoEnvelope)} :
        LET r == Get(client, params, salt, outcome)
        IN  /\ client' = r.client
            /\ sent' = r.query
            /\ ret' = [called |-> TRUE, JSON |-> FALSE, hasBody |-> r.hasBody,
                       response |-> r.response, err |-> r.err]
            /\ seen' = [params |-> params, before |-> client, outcome |-> outcome]
            /\ target' = NoTarget
            /\ matched' = NotMatched
            /\ UNCHANGED <<marshalVars, decodeVars, articleVars, endpointVars>>

\* The caller matches the error it got against one of the package's errors.
MatchError ==
    /\ ret.called
    /\ ret.err # NoError
    /\ ~matched.done
    /\ \E tgt \in Targets :
          /\ target' = tgt
          /\ matched' =
                [done |-> TRUE,
                 is |-> ret.err.type = "SubsonicError" /\ Is(ret.err, tgt),
                 errorsIs |-> ErrorsIs(ret.err, tgt),
                 converse |-> tgt.type = "SubsonicError" /\ Is(tgt, ret.err)]
    /\ UNCHANGED <<client, sent, ret, seen>>
    /\ UNCHANGED <<marshalVars, decodeVars, articleVars, endpointVars>>

-----------------------------------------------------------------------------
(* The endpoint methods: system.go, sharing.go, mediaretrieval.go,         *)
(* browsing.go, playlist.go, the jukebox control, and the playlist methods *)
(* built on idsToStrings.                                                  *)

\* string(v): the Go string of a text.
RECURSIVE GoString(_)
GoString(t) == IF t = <<>> THEN "" ELSE t[1] \o GoString(Tail(t))

\* The url.Values MarshalValues returned, as the transport takes them: nil
\* next to an error, else one value per key.
ValuesOf(m) ==
    IF m.isNil THEN NilParams
    ELSE Params([k \in {GoString(name) : name \in DOMAIN m.out} |->
                    LET name == CHOOSE x \in DOMAIN m.out : GoString(x) = k
                    IN  GoString(m.out[name][1])])

\* The error MarshalValues returned.
MarshalError(m) == OtherError(m.err)

\* The parameter set of the caller after get: url.Values is a map, so the
\* Sets of get act on the map the caller holds; only a nil map is replaced by
\* one the caller never sees.
ParamsAfterGet(cl, params, salt) ==
    IF params.nil THEN NilParams ELSE Params(Query(cl, params, salt))

\* What a method did with the transport: whether it called get or getJSON,
\* the parameter set it handed over and that set after the call, the queries
\* of the GET requests issued, and whether an accepted envelope said
\* openSubsonic: true.
NoTransport ==
    [used |-> FALSE, handed |-> NilParams, after |-> NilParams, requests |-> <<>>,
     failure |-> NoError, accepted |-> FALSE, advertised |-> FALSE]
ViaTransport(cl, params, salt, r) ==
    [used |-> TRUE, handed |-> params, after |-> ParamsAfterGet(cl, params, salt),
     requests |-> <<r.query>>, failure |-> r.err,
     accepted |-> r.err = NoError /\ ~r.response.nil,
     advertised |-> r.err = NoError /\ ~r.response.nil /\ r.response.env.openSubsonic]

\* The result of a method: nil (a nil pointer, slice or reader) or a value.
NilValue == "nil"
SomeValue == "value"

\* A method returns (value, err), or panics on a nil pointer or on an index
\* out of range; cl is the Client it leaves behind.
Return(cl, io, value, err) ==
    [client |-> cl, io |-> io, value |-> value, err |-> err, panicked |-> FALSE]
Panic(cl, io) ==
    [client |-> cl, io |-> io, value |-> NilValue, err |-> NoError, panicked |-> TRUE]

\* resp.SubsonicResponse.X for the result key X of the endpoint.
ResultKey(r) == IF r.response.env.data THEN SomeValue ELSE NilValue

\* errors.New and fmt.Errorf of CreateShare.
ErrShareNotPresent ==
    [type |-> "*errors.errorString", Code |-> 0,
     Message |-> "share not present in response"]
ErrUnexpectedShares ==
    [type |-> "*errors.errorString", Code |-> 0,
     Message |-> "unexpected number of share objects returned"]

\* Client.Ping: resp is read whatever err is.
Ping(cl, salt, outcome) ==
    LET r == GetJSON(cl, NilParams, salt, outcome)
        io == ViaTransport(cl, NilParams, salt, r)
    IN  IF r.response.nil THEN Panic(r.client, io)
        ELSE Return(r.client, io, SomeValue, r.err)

\* Client.GetLicense
GetLicense(cl, salt, outcome) ==
    LET r == GetJSON(cl, NilParams, salt, outcome)
        io == ViaTransport(cl, NilParams, salt, r)
    IN  IF r.response.nil THEN Panic(r.client, io)
        ELSE Return(r.client, io, ResultKey(r), r.err)

\* A gate that lets every call through.
RejectedNever(cl) == FALSE

\* !c.openSubsonic
Rejected(cl) == ~cl.openSubsonic

\* Client.GetOpenSubsonicExtensions
GetOpenSubsonicExtensions(cl, salt, outcome) ==
    LET r == GetJSON(cl, NilParams, salt, outcome)
        io == ViaTransport(cl, NilParams, salt, r)
    IN  IF Rejected(cl)
        THEN Return(cl, NoTransport, NilValue, ErrServerDoesNotSupportOpenSubsonic)
        ELSE IF r.response.nil THEN Panic(r.client, io)
        ELSE Return(r.client, io, ResultKey(r), r.err)

\* A check of the marshal error that never sees one.
MarshalFailureIgnored(m) == FALSE

\* params, err := MarshalValues(req); err != nil
MarshalFailed(m) == m.err # ErrNone

\* Client.Stream: resp.Body is read whatever err is.
Stream(cl, in, salt, outcome) ==
    LET m == MarshalValues(in)
        params == ValuesOf(m)
        g == Get(cl, params, salt, outcome)
        io == ViaTransport(cl, params, salt, g)
    IN  IF MarshalFailed(m) THEN Return(cl, NoTransport, NilValue, MarshalError(m))
        ELSE IF ~g.hasBody THEN Panic(g.client, io)
        ELSE Return(g.client, io, SomeValue, g.err)

\* Client.CreateShare
CreateShare(cl, in, salt, outcome) ==
    LET m == MarshalValues(in)
        params == ValuesOf(m)
        r == GetJSON(cl, params, salt, outcome)
        io == ViaTransport(cl, params, salt, r)
    IN  IF MarshalFailed(m) THEN Return(cl, NoTransport, NilValue, MarshalError(m))
        ELSE IF r.err # NoError THEN Return(r.client, io, NilValue, r.err)
        ELSE IF ~r.response.env.data
            THEN Return(r.client, io, NilValue, ErrShareNotPresent)
        ELSE IF r.response.env.n # 1
            THEN Return(r.client, io, NilValue, ErrUnexpectedShares)
        ELSE Return(r.client, io, SomeValue, NoError)

\* Client.JukeboxControl
JukeboxControl(cl, in, salt, outcome) ==
    LET m == MarshalValues(in)
        params == ValuesOf(m)
        r == GetJSON(cl, params, salt, outcome)
        io == ViaTransport(cl, params, salt, r)
    IN  IF MarshalFailed(m) THEN Return(cl, NoTransport, NilValue, MarshalError(m))
        ELSE IF r.err # NoError THEN Return(r.client, io, NilValue, r.err)
        ELSE Return(r.client, io, ResultKey(r), NoError)

\* fmt.Sprintf("%d", count) of a non-nil *int: the address the pointer holds,
\* in decimal.
AddressText == "824633802904"

\* Client.GetSimilarSongs (GetSimilarSongs2 and GetTopSongs read their keys
\* the same way): SimilarSongs.Song is read whether or not SimilarSongs is
\* nil.
GetSimilarSongs(cl, songID, count, salt, outcome) ==
    LET byID == Set(NoKeys, "id", GoString(songID))
        given == Params(IF count.nil THEN byID ELSE Set(byID, "count", AddressText))
        r == GetJSON(cl, given, salt, outcome)
        io == ViaTransport(cl, given, salt, r)
    IN  IF r.err # NoError THEN Return(r.client, io, NilValue, r.err)
        ELSE IF ~r.response.env.data THEN Panic(r.client, io)
        ELSE Return(r.client, io, SomeValue, NoError)

\* Client.GetPlaylists; username is a *string.
GetPlaylists(cl, username, salt, outcome) ==
    LET params == Params(IF username.nil THEN NoKeys
                         ELSE Set(NoKeys, "username", GoString(username.s)))
        r == GetJSON(cl, params, salt, outcome)
        io == ViaTransport(cl, params, salt, r)
    IN  IF r.err # NoError THEN Return(r.client, io, NilValue, r.err)
        ELSE Return(r.client, io, ResultKey(r), NoError)

\* The loop of idsToStrings from index i on (counted from 1 here). strs is the
\* named result, nil when the loop starts and never made longer: an
\* assignment past its length panics.
RECURSIVE StringsFrom(_, _, _)
StringsFrom(ids, i, strs) ==
    IF i > Len(ids) THEN [panicked |-> FALSE, strs |-> strs]
    ELSE IF i > Len(strs) THEN [panicked |-> TRUE, strs |-> strs]
    ELSE StringsFrom(ids, i + 1, [strs EXCEPT ![i] = ids[i]])

idsToStrings(ids) == StringsFrom(ids, 1, <<>>)

\* Client.CreatePlaylist by name and song IDs. The url.Values literal is built
\* before getJSON is called; a key whose list of values is empty adds nothing
\* to the query and is left out of it here.
CreatePlaylist(cl, name, songIDs, salt, outcome) ==
    LET s == idsToStrings(songIDs)
        params == Params(Set(NoKeys, "name", GoString(name)))
        r == GetJSON(cl, params, salt, outcome)
        io == ViaTransport(cl, params, salt, r)
    IN  IF s.panicked THEN Panic(cl, NoTransport)
        ELSE IF r.err # NoError THEN Return(r.client, io, NilValue, r.err)
        ELSE Return(r.client, io, ResultKey(r), r.err)

\* What the server answers to an endpoint method.
EndpointEnvelopes ==
    LET ok(v, d) == Envelope(SubsonicResponseStatusOk, v, FALSE, 0, "", d)
    IN  {ok("1.16.1", TRUE), ok("1.16.1", FALSE), ok("", TRUE),
         Advertising(ok("1.16.1", TRUE)),
         Holding(ok("1.16.1", TRUE), 0), Holding(ok("1.16.1", TRUE), 2),
         Envelope(SubsonicResponseStatusFailed, "1.16.1", TRUE, 40, "m", FALSE)}

EndpointOutcomes ==
    {TransportFailure,
     Body("malformed", "none", "null", NoEnvelope),
     Body("object", "none", "null", NoEnvelope)}
    \cup {Body("object", "subsonic-response", "object", e) : e \in EndpointEnvelopes}

\* The arguments the callers pass.
StreamRequests ==
    {ReqStream(<<"s", "1">>, m, NilPtrV("string"), 0, <<>>, FALSE, FALSE) :
        m \in {NilPtrV("int"), PtrV(IntV(1))}}
ShareRequests ==
    {ReqCreateShare(SliceV(<< <<"s", "1">> >>), <<>>, e) : e \in UnixMillis}
SetGain == <<"s", "e", "t", "G", "a", "i", "n">>
Gains == {PtrV(FloatV(<<"0", ".", "5">>)), PtrV(NaNV)}
JukeboxRequests ==
    {ReqJukeboxControl(SetGain, NilPtrV("int"), NilPtrV("int"), NilSliceV, g) :
        g \in Gains}
Counts == {NilPtrV("int"), PtrV(IntV(1))}
Usernames == {NilPtrV("string"), PtrV(StrV(<<"a">>))}
IDLists == {<<>>, << <<"s", "1">> >>, << <<"s", "1">>, <<"s", "2">> >>}

\* No endpoint method has been called.
NoCall ==
    [method |-> "", done |-> FALSE, before |-> NewClient("", "", FALSE),
     advertisedBefore |-> FALSE, advertised |-> FALSE, salt |-> "",
     earlierSalt |-> "", lastSalt |-> "",
     outcome |-> TransportFailure, req |-> <<>>, ids |-> <<>>, strs |-> <<>>,
     io |-> NoTransport, value |-> NilValue, err |-> NoError, panicked |-> FALSE]

\* The call of a method that came out as r: the Client is left as the method
\* left it, and the session has seen an advertising server once an accepted
\* envelope said so. salt is what random.String gives when the call gets as
\* far as get, earlierSalt what it gave for the request before this call.
Called(method, in, ids, salt, outcome, r) ==
    /\ client' = r.client
    /\ call' = [method |-> method, done |-> TRUE, before |-> client,
                advertisedBefore |-> call.advertised,
                advertised |-> call.advertised \/ r.io.advertised,
                salt |-> salt, earlierSalt |-> call.lastSalt,
                lastSalt |-> IF r.io.used THEN salt ELSE call.lastSalt,
                outcome |-> outcome, req |-> in, ids |-> ids,
                strs |-> idsToStrings(ids).strs,
                io |-> r.io, value |-> r.value, err |-> r.err,
                panicked |-> r.panicked]
    /\ UNCHANGED <<sent, ret, seen, target, matched>>
    /\ UNCHANGED <<marshalVars, decodeVars, articleVars>>

CallPing ==
    \E salt \in Salts(client), outcome \in EndpointOutcomes :
        Called("Ping", <<>>, <<>>, salt, outcome, Ping(client, salt, outcome))

CallGetLicense ==
    \E salt \in Salts(client), outcome \in EndpointOutcomes :
        Called("GetLicense", <<>>, <<>>, salt, outcome,
               GetLicense(client, salt, outcome))

CallGetOpenSubsonicExtensions ==
    \E salt \in Salts(client), outcome \in EndpointOutcomes :
        Called("GetOpenSubsonicExtensions", <<>>, <<>>, salt, outcome,
               GetOpenSubsonicExtensions(client, salt, outcome))

CallStream ==
    \E in \in StreamRequests, salt \in Salts(client),
       outcome \in {TransportFailure, Body("malformed", "none", "null", NoEnvelope)} :
        Called("Stream", in, <<>>, salt, outcome, Stream(client, in, salt, outcome))

CallCreateShare ==
    \E in \in ShareRequests, salt \in Salts(client), outcome \in EndpointOutcomes :
        Called("CreateShare", in, <<>>, salt, outcome,
               CreateShare(client, in, salt, outcome))

CallJukeboxControl ==
    \E in \in JukeboxRequests, salt \in Salts(client), outcome \in EndpointOutcomes :
        Called("JukeboxControl", in, <<>>, salt, outcome,
               JukeboxControl(client, in, salt, outcome))

CallGetSimilarSongs ==
    \E songID \in {<<"s", "1">>}, count \in Counts, salt \in Salts(client),
       outcome \in EndpointOutcomes :
        Called("GetSimilarSongs", <<>>, <<>>, salt, outcome,
               GetSimilarSongs(client, songID, count, salt, outcome))

CallGetPlaylists ==
    \E username \in Usernames, salt \in Salts(client), outcome \in EndpointOutcomes :
        Called("GetPlaylists", <<>>, <<>>, salt, outcome,
               GetPlaylists(client, username, salt, outcome))

CallCreatePlaylist ==
    \E songIDs \in IDLists, salt \in Salts(client), outcome \in EndpointOutcomes :
        Called("CreatePlaylist", <<>>, songIDs, salt, outcome,
               CreatePlaylist(client, <<"a">>, songIDs, salt, outcome))

-----------------------------------------------------------------------------
(* The specifications.                                                 *)

NoRequest == [type |-> "none", fields |-> <<>>]

\* Nothing is being decoded while a request is marshaled.
IdleDecode ==
    /\ jsonIn = <<>>
    /\ id = <<>>
    /\ idBefore = <<>>
    /\ idRes = NotDecoded
    /\ dur = ZeroDuration
    /\ durRes = NotDecoded
    /\ durOut = <<>>

\* No request is being marshaled while a document is decoded.
IdleMarshal ==
    /\ req = NoRequest
    /\ values = NotCalled

\* No ignored articles are decoded or encoded.
IdleArticles ==
    /\ artIn = FromList(NilArticles)
    /\ artWire = <<>>
    /\ articles = NilArticles
    /\ artErr = ErrNone
    /\ artPc = "idle"

\* No session exists.
IdleClient ==
    /\ client = NewClient("", "", FALSE)
    /\ sent = NoQuery
    /\ ret = NotReturned
    /\ seen = NothingSeen
    /\ target = NoTarget
    /\ matched = NotMatched

\* No endpoint method has been called.
IdleEndpoints == call = NoCall

InitMarshal ==
    /\ req \in Requests
    /\ values = NotCalled
    /\ IdleDecode
    /\ IdleArticles
    /\ IdleClient
    /\ IdleEndpoints

NextMarshal == CallMarshalValues

SpecMarshal == InitMarshal /\ [][NextMarshal]_vars

InitDecode ==
    /\ jsonIn \in JSONInputs
    /\ id \in {<<>>, <<"s", "1">>}
    /\ idBefore = id
    /\ idRes = NotDecoded
    /\ dur = ZeroDuration
    /\ durRes = NotDecoded
    /\ durOut = <<>>
    /\ IdleMarshal
    /\ IdleArticles
    /\ IdleClient
    /\ IdleEndpoints

NextDecode ==
    \/ DecodeID
    \/ DecodeDuration
    \/ EncodeDuration
    \/ FeedBack

SpecDecode == InitDecode /\ [][NextDecode]_vars

InitArticles ==
    /\ artIn \in ArticleInputs
    /\ artWire = artIn.wire
    /\ articles = artIn.list
    /\ artErr = ErrNone
    /\ artPc = "start"
    /\ IdleMarshal
    /\ IdleDecode
    /\ IdleClient
    /\ IdleEndpoints

NextArticles ==
    \/ DecodeArticles
    \/ EncodeArticles

SpecArticles == InitArticles /\ [][NextArticles]_vars

InitClient ==
    /\ client \in Clients
    /\ sent = NoQuery
    /\ ret = NotReturned
    /\ seen = NothingSeen
    /\ target = NoTarget
    /\ matched = NotMatched
    /\ IdleMarshal
    /\ IdleDecode
    /\ IdleArticles
    /\ IdleEndpoints

NextClient ==
    \/ CallGetJSON
    \/ CallGet
    \/ MatchError

SpecClient == InitClient /\ [][NextClient]_vars

InitEndpoints ==
    /\ client \in Clients
    /\ sent = NoQuery
    /\ ret = NotReturned
    /\ seen = NothingSeen
    /\ target = NoTarget
    /\ matched = NotMatched
    /\ call = NoCall
    /\ IdleMarshal
    /\ IdleDecode
    /\ IdleArticles

NextEndpoints ==
    \/ CallPing
    \/ CallGetLicense
    \/ CallGetOpenSubsonicExtensions
    \/ CallStream
    \/ CallCreateShare
    \/ CallJukeboxControl
    \/ CallGetSimilarSongs
    \/ CallGetPlaylists
    \/ CallCreatePlaylist

SpecEndpoints == InitEndpoints /\ [][NextEndpoints]_vars

-----------------------------------------------------------------------------
(* What the claims about MarshalValues speak of, stated on the request     *)
(* struct itself.                                                          *)

\* The part of a tag before its first comma.
NamePart(tag) ==
    SubSeq(tag, 1, CHOOSE n \in 0..Len(tag) :
                       /\ \A j \in 1..n : tag[j] # ","
                       /\ n = Len(tag) \/ tag[n + 1] = ",")

\* The key a field is expected under.
WireName(f) == IF f.hasTag THEN NamePart(f.tag) ELSE <<f.Name>>

\* The field is marked omitempty: the word follows a comma of its tag.
MarkedOmitEmpty(f) ==
    /\ f.hasTag
    /\ \E i \in 2..Len(f.tag) : f.tag[i] = "omitempty" /\ f.tag[i - 1] = ","

\* The zero/empty value of the value's type.
IsZeroValue(val) ==
    \/ val.k = "string" /\ val.s = <<>>
    \/ val.k = "int" /\ val.n = 0
    \/ val.k = "bool" /\ ~val.b
    \/ val.k = "ptr" /\ val.nil
    \/ val.k = "slice" /\ (val.nil \/ val.e = <<>>)
    \/ val.k = "time" /\ val.t = ZeroTime
    \/ val.k = "unixmilli" /\ val.b

\* No other field of the struct has the wire name of field i.
OnlyFieldOfItsName(fields, i) ==
    \A j \in 1..Len(fields) : j # i => WireName(fields[j]) # WireName(fields[i])

Returned == values.called
Succeeded == values.called /\ values.err = ErrNone /\ ~values.isNil

\* C1: after a successful MarshalValues, a field marked omitempty that holds
\* the zero/empty value of its type (empty string, 0, false, nil pointer,
\* nil or empty slice, zero time) has no key in the returned parameter set.
C1_OmitEmptyHonoured ==
    Succeeded =>
        \A i \in 1..Len(req.fields) :
            LET f == req.fields[i]
            IN  (MarkedOmitEmpty(f) /\ IsZeroValue(f.val)
                    /\ OnlyFieldOfItsName(req.fields, i))
                => WireName(f) \notin DOMAIN values.out

\* C2: a slice-valued field of length N >= 1 is stored as exactly N string
\* values under its key, one per element, in the order of the slice.
C2_SliceOneValuePerElement ==
    Succeeded =>
        \A i \in 1..Len(req.fields) :
            LET f == req.fields[i]
            IN  (f.val.k = "slice" /\ Len(f.val.e) >= 1
                    /\ OnlyFieldOfItsName(req.fields, i))
                => /\ WireName(f) \in DOMAIN values.out
                   /\ values.out[WireName(f)] = f.val.e

\* C3: MarshalValues of ReqCreateShare{ID: ["s1","s2"], Description: "",
\* Expires: zero time} returns exactly {"id": ["s1","s2"]}.
C3_CreateShareScenario ==
    (/\ Returned
     /\ req = [type |-> "ReqCreateShare",
               fields |-> ReqCreateShare(SliceV(<< <<"s", "1">>, <<"s", "2">> >>),
                                         <<>>, UnixMilliV(TRUE, 0))])
    => /\ values.err = ErrNone
       /\ values.out = [k \in {<<"id">>} |-> << <<"s", "1">>, <<"s", "2">> >>]

\* C4: in a successful result every key is the wire name of some field (the
\* Go field name of an untagged field, the part of the tag before the first
\* comma otherwise), and every field that is not marked omitempty is present
\* under its wire name, whatever modifiers follow the name.
C4_KeyedByWireName ==
    Succeeded =>
        /\ \A k \in DOMAIN values.out :
              \E i \in 1..Len(req.fields) : k = WireName(req.fields[i])
        /\ \A i \in 1..Len(req.fields) :
              ~MarkedOmitEmpty(req.fields[i])
                  => WireName(req.fields[i]) \in DOMAIN values.out

\* C4 witness: a struct with an untagged field and a field whose tag names it
\* and carries modifiers has been marshaled, each keyed as claimed.
C4_Witness ==
    /\ Succeeded
    /\ \E i \in 1..Len(req.fields) :
          ~req.fields[i].hasTag /\ <<req.fields[i].Name>> \in DOMAIN values.out
    /\ \E i \in 1..Len(req.fields) :
          /\ req.fields[i].hasTag
          /\ Len(req.fields[i].tag) > 1
          /\ <<req.fields[i].tag[1]>> \in DOMAIN values.out

\* Some field carries a url tag whose name part is empty.
HasEmptyNameTag(fields) ==
    \E i \in 1..Len(fields) : fields[i].hasTag /\ NamePart(fields[i].tag) = <<>>

\* A field before the first empty-named one holds a value json.Marshal rejects.
UnconvertibleBeforeEmptyName(fields) ==
    \E j \in 1..Len(fields) :
        /\ fields[j].val.k = "chan"
        /\ \A i \in 1..j : ~(fields[i].hasTag /\ NamePart(fields[i].tag) = <<>>)

\* C5 as claimed: with a field whose tag has an empty name part, MarshalValues
\* returns a nil parameter set together with the invalid-tag error.
C5_EmptyNameFailsWithTagError ==
    (Returned /\ HasEmptyNameTag(req.fields))
        => values.isNil /\ values.err = ErrInvalidTag

\* C5 amended: with a field whose tag has an empty name part, MarshalValues
\* returns a nil parameter set and an error, never a partial result; the
\* error is the invalid-tag error unless the value of an earlier field could
\* not be converted, and then it is that conversion error.
C5_EmptyNameFailsAsAWhole ==
    (Returned /\ HasEmptyNameTag(req.fields))
        => /\ values.isNil
           /\ values.out = EmptyValues
           /\ values.err = IF UnconvertibleBeforeEmptyName(req.fields)
                           THEN ErrJSON ELSE ErrInvalidTag

\* C5 witness: the second field has the empty name, the first one was
\* convertible, and the call returned nil with the invalid-tag error.
C5_Witness ==
    /\ Returned
    /\ Len(req.fields) = 2
    /\ WireName(req.fields[1]) = <<"y">>
    /\ req.fields[2].hasTag /\ NamePart(req.fields[2].tag) = <<>>
    /\ values.isNil /\ values.err = ErrInvalidTag

\* C6: MarshalValues succeeds on every Foo and the result has the keys "a",
\* "B" and "c"; and whenever MarshalValues succeeds, every field that is not
\* marked omitempty has its key, also when its value is empty or zero.
C6_UnmarkedFieldsAlwaysPresent ==
    /\ (Returned /\ req.type = "Foo")
          => /\ Succeeded
             /\ {<<"a">>, <<"B">>, <<"c">>} \subseteq DOMAIN values.out
    /\ Succeeded =>
          \A i \in 1..Len(req.fields) :
              ~MarkedOmitEmpty(req.fields[i])
                  => WireName(req.fields[i]) \in DOMAIN values.out

\* C6 witness: a Foo with A = "", B = 0 and C = "" has been marshaled and has
\* the three keys.
C6_Witness ==
    /\ Returned
    /\ req.type = "Foo"
    /\ req.fields[1].val.s = <<>>
    /\ req.fields[2].val.n = 0
    /\ req.fields[3].val.s = <<>>
    /\ {<<"a">>, <<"B">>, <<"c">>} \subseteq DOMAIN values.out

\* C7: the value emitted for a string-valued field is the string itself,
\* character for character, whatever characters it holds.
C7_StringEmittedRaw ==
    Succeeded =>
        \A i \in 1..Len(req.fields) :
            LET f == req.fields[i]
            IN  (f.val.k = "string" /\ f.val.s # <<>>
                    /\ OnlyFieldOfItsName(req.fields, i))
                => /\ WireName(f) \in DOMAIN values.out
                   /\ values.out[WireName(f)] = <<f.val.s>>

\* C8: a nil pointer field is left out of the result also when it is not
\* marked omitempty; the text "null" is never emitted as a parameter value.
C8_NullNeverEmitted ==
    Succeeded =>
        /\ \A k \in DOMAIN values.out :
              \A j \in 1..Len(values.out[k]) : values.out[k][j] # NullText
        /\ \A i \in 1..Len(req.fields) :
              LET f == req.fields[i]
              IN  (f.val.k = "ptr" /\ f.val.nil /\ ~MarkedOmitEmpty(f)
                      /\ OnlyFieldOfItsName(req.fields, i))
                  => WireName(f) \notin DOMAIN values.out

-----------------------------------------------------------------------------
(* What the claims about the decoders speak of, stated on the JSON text.   *)

\* The text is a JSON integer: an optional minus and digits, no leading zero.
IsIntegerText(b) ==
    /\ b # <<>>
    /\ LET body == IF b[1] = "-" THEN Tail(b) ELSE b
       IN  /\ body # <<>>
           /\ \A i \in 1..Len(body) : IsDigit(body[i])
           /\ Len(body) > 1 => body[1] # "0"

\* The JSON values that are neither a string nor a number.
NeitherStringNorNumber ==
    {TrueText, FalseText, NullText, <<"[", "]">>, <<"[", "1", "]">>, <<"{", "}">>}

IDDecoded == idRes # NotDecoded

\* C9: SubsonicID.UnmarshalJSON accepts exactly JSON strings and JSON
\* numbers: the JSON string of s decodes to s, a JSON integer decodes to its
\* own base-10 text, and a boolean, null, array or object fails with the
\* type-mismatch error and leaves the identifier as it was.
C9_IDFromStringOrNumber ==
    IDDecoded =>
        /\ \A s \in StringsUpTo(MaxStrLen + 1) :
              jsonIn = JSONString(s) => idRes = ErrNone /\ id = s
        /\ IsIntegerText(jsonIn) => idRes = ErrNone /\ id = jsonIn
        /\ jsonIn \in NeitherStringNorNumber => idRes = ErrType /\ id = idBefore
        /\ idRes = ErrNone =>
              \/ jsonIn[1] = Q
              \/ jsonIn[1] = "-"
              \/ IsDigit(jsonIn[1])

\* The duration of n whole seconds, n given as a JSON integer.
SecondsOfText(b) ==
    LET neg == b[1] = "-"
        body == IF neg THEN Tail(b) ELSE b
    IN  Duration(neg, Canon(TextDigits(body) \o Zeros(SecondDigits)))

\* The duration of n whole seconds, n a small integer.
Seconds(n) ==
    Duration(n < 0, Canon(NatDigits(IF n < 0 THEN -n ELSE n) \o Zeros(SecondDigits)))

\* The text Go prints for a duration of n whole seconds, 0 <= n: hours and
\* minutes appear once the duration reaches them.
GoSecondsText(n) ==
    LET h == n \div 3600
        m == (n % 3600) \div 60
        s == n % 60
    IN  IF h > 0 THEN NatToText(h) \o <<"h">> \o NatToText(m) \o <<"m">>
                      \o NatToText(s) \o <<"s">>
        ELSE IF m > 0 THEN NatToText(m) \o <<"m">> \o NatToText(s) \o <<"s">>
        ELSE NatToText(s) \o <<"s">>

GoDurationText(n) ==
    IF n < 0 THEN <<"-">> \o GoSecondsText(-n) ELSE GoSecondsText(n)

\* The whole seconds whose text is compared with Go's.
TextedSeconds == ((-1)..MaxNumber) \cup {3600, 3661, 86400}

\* The largest count of whole seconds an int64 of nanoseconds holds.
MaxSecondsText == Text9223372036

\* The JSON integer is at most MaxSecondsText in magnitude.
FitsInt64Nanoseconds(b) ==
    LET body == IF b[1] = "-" THEN Tail(b) ELSE b
        top == TextDigits(MaxSecondsText)
        ds == TextDigits(body)
    IN  \/ Len(body) < Len(top)
        \/ /\ Len(body) = Len(top)
           /\ \/ ds = top
              \/ \E i \in 1..Len(top) :
                    /\ ds[i] < top[i]
                    /\ \A j \in 1..(i - 1) : ds[j] = top[j]

DurationDecoded == durRes # NotDecoded
DurationEncoded == durOut # <<>>

\* What C10 says of the serialized form: it is the JSON string of the Go
\* duration text, and the decoder rejects it when it is handed back.
SerializedAsGoText ==
    /\ DurationEncoded =>
          /\ durOut[1] = Q /\ Last(durOut) = Q
          /\ \A n \in TextedSeconds :
                dur = Seconds(n) => durOut = JSONString(GoDurationText(n))
    /\ (DurationEncoded /\ DurationDecoded /\ jsonIn = durOut)
          => durRes = ErrType

\* C10 as claimed: a JSON number of n whole seconds decodes to the duration
\* of n seconds, every JSON value that is not a number is rejected, and the
\* serialized form is the Go duration text, which the decoder rejects.
C10_SecondsDecodedAsClaimed ==
    /\ DurationDecoded =>
          /\ IsIntegerText(jsonIn)
                => durRes = ErrNone /\ dur = SecondsOfText(jsonIn)
          /\ (jsonIn[1] = Q \/ jsonIn \in NeitherStringNorNumber)
                => durRes = ErrType
    /\ SerializedAsGoText

\* C10 amended: a JSON number of n whole seconds with |n| <= 9223372036
\* decodes to the duration of n seconds; a larger one is accepted too, but
\* the int64 count of nanoseconds cannot hold n seconds and the decoded
\* duration differs from it. Every JSON value that is not a number is
\* rejected, and the serialized form is the Go duration text, which the
\* decoder rejects.
C10_SecondsDecodedWithinInt64 ==
    /\ DurationDecoded =>
          /\ IsIntegerText(jsonIn) =>
                /\ durRes = ErrNone
                /\ FitsInt64Nanoseconds(jsonIn) <=> dur = SecondsOfText(jsonIn)
          /\ (jsonIn[1] = Q \/ jsonIn \in NeitherStringNorNumber)
                => durRes = ErrType
    /\ SerializedAsGoText

\* C10 witness: 125 was decoded to 125 seconds, serialized as "2m5s", and the
\* decoder has rejected that text.
C10_Witness ==
    /\ dur = Seconds(125)
    /\ durOut = JSONString(<<"2", "m", "5", "s">>)
    /\ jsonIn = durOut
    /\ durRes = ErrType

-----------------------------------------------------------------------------
(* What the claims about IgnoredArticles speak of.                         *)

\* The caller started from the JSON string of some wire string.
FromWireString == artIn.kind = "wire" /\ artIn.wire[1] = Q
WireDecoded == FromWireString /\ artPc \in {"decoded", "done"}
WireReencoded == FromWireString /\ artPc = "done"
ListEncoded == artIn.kind = "list" /\ artPc \in {"encoded", "done"}
ListRedecoded == artIn.kind = "list" /\ artPc = "done"

\* Every word is non-empty and holds no space.
PlainWords(words) ==
    \A i \in 1..Len(words) :
        words[i] # <<>> /\ \A j \in 1..Len(words[i]) : words[i][j] # " "

EmptyWire == <<Q, Q>>
TheAAnWire == <<Q, "T", "h", "e", " ", "A", " ", "A", "n", Q>>
TheAAn == << <<"T", "h", "e">>, <<"A">>, <<"A", "n">> >>

\* C11: decoding a wire string and encoding the list again gives the wire
\* string back ("" gives the nil list, "The A An" gives The, A, An), and
\* encoding a list of non-empty words without spaces and decoding it again
\* gives the same words in the same order.
C11_ArticlesRoundTrip ==
    /\ WireDecoded =>
          /\ artErr = ErrNone
          /\ artIn.wire = EmptyWire => articles = NilArticles
          /\ artIn.wire = TheAAnWire => articles = Articles(TheAAn)
    /\ WireReencoded => artWire = artIn.wire
    /\ (ListRedecoded /\ PlainWords(artIn.list.words)) =>
          /\ artErr = ErrNone
          /\ articles.words = artIn.list.words

\* C11 witness: "The A An" has been decoded to its three words and encoded
\* back to the same text.
C11_Witness ==
    /\ WireReencoded
    /\ artIn.wire = TheAAnWire
    /\ articles = Articles(TheAAn)
    /\ artWire = TheAAnWire

\* C12 as claimed: the wire string is empty exactly when the list is empty or
\* nil, for the list a decoding yields and for the wire string an encoding
\* yields.
C12_EmptyWireIffEmptyList ==
    /\ WireDecoded => (articles.words = <<>> <=> artIn.wire = EmptyWire)
    /\ ListEncoded => (artWire = EmptyWire <=> artIn.list.words = <<>>)

\* C12 amended: a decoding yields an empty (nil) list exactly for the empty
\* wire string; an encoding yields the empty wire string exactly for an
\* empty or nil list and for the list of one empty word, so for lists of
\* non-empty words exactly for the empty or nil list.
C12_EmptyWireIffNoLetters ==
    /\ WireDecoded => (articles.words = <<>> <=> artIn.wire = EmptyWire)
    /\ ListEncoded =>
          (artWire = EmptyWire
              <=> artIn.list.words = <<>> \/ artIn.list.words = << <<>> >>)
    /\ (ListEncoded /\ PlainWords(artIn.list.words)) =>
          (artWire = EmptyWire <=> artIn.list.words = <<>>)

\* C12 witness: the list of one empty word, which is not empty, has been
\* encoded to the empty wire string.
C12_Witness ==
    /\ ListEncoded
    /\ artIn.list = Articles(<< <<>> >>)
    /\ artWire = EmptyWire

-----------------------------------------------------------------------------
(* What the claims about the session speak of, stated on what the server   *)
(* answered and on what the call returned.                                 *)

GetJSONReturned == ret.called /\ ret.JSON
Answered == seen.outcome.transport
WellFormedBody == Answered /\ seen.outcome.shape # "malformed"

\* The body is an object whose member under the given key is an object.
EnvelopeUnder(key) ==
    /\ Answered
    /\ seen.outcome.shape = "object"
    /\ seen.outcome.key = key
    /\ seen.outcome.val = "object"

EnvelopeSent == EnvelopeUnder("subsonic-response")
LacksTheKey == ~(seen.outcome.shape = "object" /\ seen.outcome.key = "subsonic-response")
SentEnvelope == seen.outcome.env
SentError == SubsonicError(SentEnvelope.Code, SentEnvelope.Message)
NothingReturned == ret.response = NilResponse

\* C13: when the envelope has the failure status and an error object,
\* getJSON returns that error, code and message, and no response, whether or
\* not other result fields of the envelope carry data.
C13_FailedEnvelopeYieldsItsError ==
    (/\ GetJSONReturned
     /\ EnvelopeSent
     /\ SentEnvelope.status = SubsonicResponseStatusFailed
     /\ SentEnvelope.hasError)
    => ret.err = SentError /\ NothingReturned

\* C13 witness: a failed envelope with an error object and with data in
\* another result field was answered, and getJSON returned its error.
C13_Witness ==
    /\ GetJSONReturned
    /\ EnvelopeSent
    /\ SentEnvelope.status = SubsonicResponseStatusFailed
    /\ SentEnvelope.hasError
    /\ SentEnvelope.data
    /\ ret.err = SubsonicError(40, "m")
    /\ NothingReturned

\* C14: whenever the envelope's status is "failed", getJSON returns a non-nil
\* error and no response, also when the envelope carries no error object.
C14_FailedStatusIsAFailure ==
    (/\ GetJSONReturned
     /\ EnvelopeSent
     /\ SentEnvelope.status = SubsonicResponseStatusFailed)
    => ret.err # NoError /\ NothingReturned

C16_LocalCodesNeverFromServer ==
    (/\ GetJSONReturned
     /\ EnvelopeSent
     /\ SentEnvelope.hasError
     /\ matched.done
     /\ target \in {ErrNoSubsonicResponse, ErrServerDoesNotSupportOpenSubsonic})
    => ~matched.is /\ ~matched.errorsIs

\* C17: after a getJSON call in which an envelope was decoded, reporting
\* success or failure, the session's version is the version of that
\* envelope; and every request advertises in v the version the session held
\* when the request was made.
C17_VersionFollowsEveryEnvelope ==
    /\ (GetJSONReturned /\ EnvelopeSent) => client.version = SentEnvelope.version
    /\ ret.called => sent["v"] = seen.before.version

\* C18: the availability flag reflects the most recent call: false after a
\* transport failure, true after a call that succeeded.
C18_AvailabilityFollowsLastCall ==
    ret.called =>
        /\ ~Answered => ~client.serverAvailable
        /\ ret.err = NoError => client.serverAvailable

\* C19: every request carries v, c, f=json and u; under salted
\* authentication it carries t and s, no p and the password in no parameter;
\* otherwise it carries p and neither t nor s. The parameters of the
\* endpoint, also a nil set, are carried along.
C19_IdentityParametersAlwaysSent ==
    ret.called =>
        /\ {"v", "c", "f", "u"} \subseteq DOMAIN sent
        /\ sent["v"] = seen.before.version
        /\ sent["c"] = "Sublime Music"
        /\ sent["f"] = "json"
        /\ sent["u"] = seen.before.username
        /\ seen.before.useSaltAuth =>
              /\ {"t", "s"} \subseteq DOMAIN sent
              /\ "p" \notin DOMAIN sent
              /\ \A k \in DOMAIN sent : sent[k] # seen.before.password
        /\ ~seen.before.useSaltAuth =>
              /\ "p" \in DOMAIN sent
              /\ sent["p"] = seen.before.password
              /\ "t" \notin DOMAIN sent /\ "s" \notin DOMAIN sent
        /\ \A k \in DOMAIN seen.params.kv : sent[k] = seen.params.kv[k]

\* C19 witness: a session with salted authentication has issued a request
\* for an endpoint that handed over a nil parameter set.
C19_Witness ==
    /\ ret.called
    /\ seen.before.useSaltAuth
    /\ seen.params = NilParams
    /\ "t" \in DOMAIN sent /\ "s" \in DOMAIN sent

MatchedSubsonicError == matched.done /\ ret.err.type = "SubsonicError"

\* C20: for errors e1 and e2 of the client's error type, e1.Is(e2) holds
\* exactly when the codes are equal, whatever the messages, so e2.Is(e1)
\* holds as well and e1.Is(e1) holds; for an e2 of another type it is false.
C20_IsComparesCodesOnly ==
    MatchedSubsonicError =>
        /\ target.type = "SubsonicError" =>
              /\ matched.is <=> ret.err.Code = target.Code
              /\ matched.converse <=> matched.is
        /\ target = ret.err => matched.is
        /\ target.type # "SubsonicError" => ~matched.is

\* C20 witness: the server's error 40 with the message "m" has been matched
\* as ErrWrongUsernameOrPassword, whose message is another one.
C20_Witness ==
    /\ MatchedSubsonicError
    /\ ret.err = SubsonicError(40, "m")
    /\ target = ErrWrongUsernameOrPassword
    /\ matched.is

-----------------------------------------------------------------------------
(* What the claims about the endpoint methods speak of.                    *)

MethodCalled(method) == call.done /\ call.method = method
Requested == call.io.requests # <<>>
SessionUntouched == client = call.before

\* The query of the one request of the call.
TheRequest == call.io.requests[1]

-----------------------------------------------------------------------------
\* C21. While no accepted envelope has told the session that the server
\* advertises OpenSubsonic, GetOpenSubsonicExtensions returns
\* ErrServerDoesNotSupportOpenSubsonic with a nil list, issues no GET request
\* and leaves the Client as it was.
C21_GatedWithoutRequest ==
    (MethodCalled("GetOpenSubsonicExtensions") /\ ~call.advertisedBefore) =>
        /\ ~call.panicked
        /\ call.err = ErrServerDoesNotSupportOpenSubsonic
        /\ call.value = NilValue
        /\ ~Requested
        /\ SessionUntouched

\* GetOpenSubsonicExtensions was called on a session that had talked to a
\* server before, none of whose envelopes advertised OpenSubsonic.
C21_Witness ==
    /\ MethodCalled("GetOpenSubsonicExtensions")
    /\ ~call.advertisedBefore
    /\ call.before.version = "1.16.1"
    /\ call.err = ErrServerDoesNotSupportOpenSubsonic

-----------------------------------------------------------------------------
\* The single attempt of the call failed: get or getJSON returned an error.
AttemptFailed == call.done /\ call.io.used /\ call.io.failure # NoError

\* C22. A call of an endpoint method issues at most one GET request, and
\* when that attempt fails (in the transport, in the decoding, or by an error
\* of the server) the same call returns the failure to its caller.
C22_OneAttemptFailureReturned ==
    call.done =>
        /\ Len(call.io.requests) <= 1
        /\ AttemptFailed => (~call.panicked /\ call.err = call.io.failure)

-----------------------------------------------------------------------------
\* MarshalValues fails for the request struct of the call.
MarshalFails == call.done /\ call.req # <<>> /\ MarshalValues(call.req).err # ErrNone

\* C23. When MarshalValues fails for the request struct of an endpoint
\* method, the method returns that error with a nil result, issues no GET
\* request and leaves the Client (version, availability) as it was.
C23_MarshalFailureSendsNothing ==
    MarshalFails =>
        /\ ~call.panicked
        /\ call.err = MarshalError(MarshalValues(call.req))
        /\ call.value = NilValue
        /\ ~Requested
        /\ SessionUntouched

\* JukeboxControl was called with a gain that json.Marshal refuses, on a
\* session that had taken its version from a server.
C23_Witness ==
    /\ MethodCalled("JukeboxControl")
    /\ MarshalFails
    /\ call.before.version = "1.16.1"
    /\ call.err = OtherError(ErrJSON)

-----------------------------------------------------------------------------
\* C24. After a call of get or getJSON with a non-nil parameter set, the set
\* the caller handed over holds the keys and values it held before the call.
C24_ParamsNotMutated ==
    (call.done /\ call.io.used /\ ~call.io.handed.nil) =>
        call.io.after = call.io.handed

-----------------------------------------------------------------------------
\* The methods whose result is read under a key of the envelope.
ResultMethods ==
    {"GetLicense", "GetOpenSubsonicExtensions", "CreateShare", "JukeboxControl",
     "GetSimilarSongs", "GetPlaylists", "CreatePlaylist"}

\* The server answered with an accepted envelope that lacks the result key.
ResultKeyAbsent ==
    /\ call.done
    /\ call.method \in ResultMethods
    /\ call.io.accepted
    /\ ~call.outcome.env.data

\* C25. When the server answers with a success envelope in which the result
\* key of the endpoint is absent, the method returns a nil result and no
\* error, and does not panic.
C25_AbsentResultIsZero ==
    ResultKeyAbsent =>
        /\ ~call.panicked
        /\ call.err = NoError
        /\ call.value = NilValue

-----------------------------------------------------------------------------
\* C26. An error of get or getJSON is returned by the method as its error
\* with a nil result; the method does not panic on the missing response.
C26_FailureReturnedWithNil ==
    AttemptFailed =>
        /\ ~call.panicked
        /\ call.err = call.io.failure
        /\ call.value = NilValue

-----------------------------------------------------------------------------
\* C27. Once an accepted envelope has said openSubsonic: true, a call of
\* GetOpenSubsonicExtensions issues its request and is not answered with
\* ErrServerDoesNotSupportOpenSubsonic by the gate.
C27_AdvertisedOpensTheGate ==
    (MethodCalled("GetOpenSubsonicExtensions") /\ call.advertisedBefore) =>
        /\ Requested
        /\ call.err # ErrServerDoesNotSupportOpenSubsonic

-----------------------------------------------------------------------------
\* A request of a session with salted authentication.
SaltedRequest == call.done /\ Requested /\ call.before.useSaltAuth

\* C28. Under salted authentication the s of a request is the salt drawn
\* for that request, whatever the salt of the request before was, and t is the
\* hex MD5 of the password followed by that salt.
C28_TokenOfTheSaltOfThisRequest ==
    SaltedRequest =>
        \A i \in 1..Len(call.io.requests) :
            LET q == call.io.requests[i]
            IN  /\ q["s"] = call.salt
                /\ q["t"] = MD5Hex(call.before.password \o call.salt)

\* A request followed one of another salt and carries its own.
C28_Witness ==
    /\ SaltedRequest
    /\ call.earlierSalt = "salt1"
    /\ call.salt = "salt2"
    /\ TheRequest["s"] = "salt2"
    /\ TheRequest["t"] = "md5(secretsalt2)"

-----------------------------------------------------------------------------
\* C29. The v parameter of a request is never the empty string.
C29_VersionNeverEmpty ==
    (call.done /\ Requested) => TheRequest["v"] # ""

-----------------------------------------------------------------------------
\* C30. idsToStrings returns a list as long as the list of identifiers,
\* holding the string of each in the same order, so that CreatePlaylist sends
\* one songId per identifier.
C30_OneStringPerID ==
    MethodCalled("CreatePlaylist") =>
        /\ ~idsToStrings(call.ids).panicked
        /\ Len(call.strs) = Len(call.ids)
        /\ \A i \in 1..Len(call.ids) : call.strs[i] = call.ids[i]

====
